---- MODULE Spec2Model ----
(***************************************************************************)
(* Generation orchestration engine of the Multi-Agent MCP System:          *)
(* backend/main.py (generate, enhance, chat, project store) and the tools  *)
(* of code_mcp, nlp_mcp, router_mcp and video_mcp.                         *)
(*                                                                         *)
(* Strings are sequences of tokens.  A token is one lexical unit that the  *)
(* extractor's regular expressions can tell apart: an opening fence with a *)
(* language tag, a bare fence, a document-root marker, a whitespace        *)
(* character, or any other text.                                           *)
(***************************************************************************)
EXTENDS Integers, Sequences, FiniteSets, TLC

\* ---------------------------------------------------------------- bounds
\* Longest response text enumerated for the extractor.
MaxLen == 3
\* Number of generate requests accepted in one behaviour of the store
\* specification.
MaxSaves == 2

\* ---------------------------------------------------------------- strings
\* The three backticks of a fence are written [[[ here.
FenceHtml == "[[[html"
FenceCss  == "[[[css"
FenceJs   == "[[[js"
Fence     == "[[["
DocRoot   == "<html"
Space     == " "
Other     == "x"

\* Every token that begins with three backticks closes a fenced region.
Fences == {FenceHtml, FenceCss, FenceJs, Fence}
Tokens == Fences \cup {DocRoot, Space, Other}

\* Python's None and a key that is absent from a dict / a file that is
\* absent from a folder.  Both are distinct from every string.
None    == <<"<None>">>
Missing == <<"<missing>">>

EmptyStr == <<>>

RECURSIVE SeqsUpTo(_)
SeqsUpTo(n) ==
    IF n = 0 THEN {<<>>}
    ELSE LET shorter == SeqsUpTo(n - 1)
         IN  shorter \cup {Append(s, t) : s \in {u \in shorter : Len(u) = n - 1}, t \in Tokens}

AllTexts == SeqsUpTo(MaxLen)

\* Python truthiness of a str-or-None value: (x or y) yields y iff x is falsy.
Truthy(x) == x # EmptyStr /\ x # None
Or(x, y) == IF Truthy(x) THEN x ELSE y

\* str.strip()
RECURSIVE LStrip(_)
LStrip(s) == IF s # <<>> /\ Head(s) = Space THEN LStrip(Tail(s)) ELSE s

RECURSIVE RStrip(_)
RStrip(s) ==
    IF s # <<>> /\ s[Len(s)] = Space THEN RStrip(SubSeq(s, 1, Len(s) - 1)) ELSE s

Strip(s) == RStrip(LStrip(s))

\* Indices at which one of the opening tags occurs and is followed,
\* somewhere later, by three backticks.
MatchStarts(response, tags) ==
    {i \in 1..Len(response) :
        /\ response[i] \in tags
        /\ \E j \in (i + 1)..Len(response) : response[j] \in Fences}

Min(S) == CHOOSE m \in S : \A n \in S : m <= n

\* re.search(fence tag, whitespace, lazy body, fence) with re.IGNORECASE: TRUE iff it matches.
Found(response, tags) == MatchStarts(response, tags) # {}

\* match.group(1).strip() of the leftmost match, "" when there is no match.
Group(response, tags) ==
    IF ~Found(response, tags) THEN EmptyStr
    ELSE LET i == Min(MatchStarts(response, tags))
             j == Min({k \in (i + 1)..Len(response) : response[k] \in Fences})
         IN  Strip(SubSeq(response, i + 1, j - 1))

HasDocRoot(response) == \E i \in 1..Len(response) : response[i] = DocRoot

extract_code_blocks(response) ==
    LET html == Group(response, {FenceHtml})
        css  == Group(response, {FenceCss})
        js   == Group(response, {FenceJs})
        anyValue == html # EmptyStr \/ css # EmptyStr \/ js # EmptyStr
    IN  IF ~anyValue /\ HasDocRoot(response)
        THEN [html |-> Strip(response), css |-> css, js |-> js]
        ELSE [html |-> html, css |-> css, js |-> js]

\* ---------------------------------------------------------------- inputs
\* Response texts a provider returns in the workflow specification: empty,
\* prose, one markup block, one style block, an empty style block next to a
\* document root, a bare document, and all three blocks.
SampleTexts ==
    { EmptyStr,
      <<Other>>,
      <<FenceHtml, Other, Fence>>,
      <<FenceCss, Other, Fence>>,
      <<FenceCss, Fence, DocRoot>>,
      <<DocRoot>>,
      <<FenceHtml, DocRoot, Fence, FenceCss, Other, Fence, FenceJs, Other, Fence>> }

\* Response texts of the store specification: markup only, and all three.
StoreTexts ==
    { <<FenceHtml, Other, Fence>>,
      <<FenceHtml, DocRoot, Fence, FenceCss, Other, Fence, FenceJs, Other, Fence>> }

\* A design brief returned by the enhancement call.
Brief == <<Other, Space, Other>>

\* Identifiers a client supplies, and the ones uuid4 can produce.
ClientIds == {"a"}
UuidIds   == {"project_1"}
ProjectIds == ClientIds \cup UuidIds
NoId == "<None>"

\* Tasks of the event loop that serve requests.  A second request is served
\* at the same time only in the specification of concurrent requests.
Reqs == {"t1", "t2"}

OllamaHosts == {"http://localhost:11434", "http://ollama:11434"}
\* "ollama" in OLLAMA_HOST
MentionsOllama(host) == host = "http://ollama:11434"

Cloud == "cloud"
Local == "local"

VARIABLES
    PREFER_CLOUD,        \* main.py:70
    USE_CLOUD_FALLBACK,  \* main.py:69, code_mcp/server.py:24
    OPENROUTER_API_KEY,  \* main.py:65, code_mcp/server.py:22
    OLLAMA_HOST,         \* code_mcp/server.py:20
    scope,               \* which inputs the environment offers (fixed by Init)
    task,                \* per request: position in its handler and its locals
    store,               \* PROJECTS_DIR: one folder per project identifier
    clock,               \* datetime.now(): one tick per generate request
    last_save,           \* history: what the latest save of each project wrote
    save_log             \* history: every save of each project that completed

vars == <<PREFER_CLOUD, USE_CLOUD_FALLBACK, OPENROUTER_API_KEY, OLLAMA_HOST,
          scope, task, store, clock, last_save, save_log>>

config == <<PREFER_CLOUD, USE_CLOUD_FALLBACK, OPENROUTER_API_KEY, OLLAMA_HOST, scope>>

\* The specifications that follow several requests offer each of them few
\* inputs.
Narrow == scope \in {"store", "concurrent", "chains", "frame"}

\* Texts a code-generation or chat provider can answer with.
ProviderTexts ==
    CASE scope = "texts" -> AllTexts
      [] Narrow -> StoreTexts
      [] OTHER -> SampleTexts

\* What a successful code-generation or chat call returns: a text, or None
\* when the JSON of the provider holds null.
ProviderAnswers ==
    IF Narrow THEN ProviderTexts ELSE ProviderTexts \cup {None}

\* Texts the enhancement call can answer with.
BriefTexts == IF Narrow THEN {Brief} ELSE {Brief, EmptyStr, None}

Prompts == IF Narrow THEN {<<Other>>} ELSE {<<Other>>, EmptyStr}

\* Values of the enhance_prompt flag requests carry; the concurrent
\* specification follows requests that skip the enhancement step.
EnhanceChoices == IF scope \in {"concurrent", "frame"} THEN {FALSE} ELSE BOOLEAN

\* Current artifacts a chat request can carry.
CurrentValues ==
    IF scope \in {"chains", "frame"} THEN {None} ELSE {None, EmptyStr, <<Other>>}

\* ---------------------------------------------------------------- records
NoRequest ==
    [prompt |-> EmptyStr, project_id |-> NoId, enhance_prompt |-> FALSE,
     message |-> EmptyStr, current_html |-> None, current_css |-> None,
     current_js |-> None]

\* What the caller of a handler receives: a response body (outcome
\* "returned"), an HTTPException turned into an error status ("raised"), or
\* nothing when the task was cancelled ("cancelled").
\* A key the body does not have is Missing / "<missing>".  value is what a
\* tool returns when that is not a dict; projects is the list of summaries.
NoResult ==
    [outcome |-> "none", status_code |-> 0, success |-> "<missing>",
     project_id |-> "<missing>", html |-> Missing, css |-> Missing,
     javascript |-> Missing, enhanced_prompt |-> Missing, error |-> Missing,
     detail |-> Missing, model_used |-> "<missing>",
     assistant_response |-> Missing, metadata |-> <<>>,
     value |-> Missing, projects |-> <<>>, video_url |-> Missing]

NoCall == [provider |-> "none", stage |-> "none", prompt |-> EmptyStr]

\* No cancellation has been delivered to the task.  Otherwise: the call that
\* was in flight and the number of calls the task had completed by then.
NoCancel == [provider |-> "none", stage |-> "none", after |-> 0]

IdleTask ==
    [kind |-> "idle", pc |-> "idle", request |-> NoRequest, project_id |-> NoId,
     enhanced_prompt |-> EmptyStr, inflight |-> NoCall, calls |-> <<>>,
     cancelled |-> NoCancel, persisted |-> "not tried",
     prediction |-> "none", result |-> NoResult]

\* No save of the project has begun yet.
NeverSaved ==
    [status |-> "never", html |-> Missing, css |-> Missing, js |-> Missing,
     metadata |-> <<>>]

EmptyFolder ==
    [exists |-> FALSE, html |-> Missing, css |-> Missing, js |-> Missing,
     metadata |-> <<>>]

\* ---------------------------------------------------------------- providers
\* f-string interpolation of a str-or-None value.
Fmt(x) == IF x = None THEN <<"None">> ELSE x

\* str(e) of the HTTPException raised by call_ollama / call_openrouter.
OllamaError     == <<"Ollama error">>
OpenRouterError == <<"OpenRouter error">>
ProviderError(provider) == IF provider = Cloud THEN OpenRouterError ELSE OllamaError

\* The handler suspends in an outbound call to a provider.
Await(t, pc, provider, stage, prompt) ==
    [t EXCEPT !.pc = pc,
              !.inflight = [provider |-> provider, stage |-> stage, prompt |-> prompt]]

\* The outbound call ended; a failed call has no text.
Resume(t, ok, text) ==
    [t EXCEPT !.inflight = NoCall,
              !.calls = Append(@, [provider |-> t.inflight.provider,
                                   stage |-> t.inflight.stage,
                                   prompt |-> t.inflight.prompt,
                                   ok |-> ok,
                                   text |-> IF ok THEN text ELSE Missing])]

\* use_cloud = PREFER_CLOUD and bool(OPENROUTER_API_KEY)
use_cloud == PREFER_CLOUD /\ OPENROUTER_API_KEY # ""

Primary == IF use_cloud THEN Cloud ELSE Local

Finish(t, result) == [t EXCEPT !.pc = "done", !.result = result]

\* An exception that leaves the handler: FastAPI answers with its status.
Raised(status, detail) ==
    [NoResult EXCEPT !.outcome = "raised", !.status_code = status, !.detail = detail]

\* The tasks that serve requests in the current specification.
Serving == IF scope \in {"concurrent", "chains"} THEN Reqs ELSE {"t1"}

\* A handler starts in a task that serves no request.  The workflow
\* specifications follow one request from its arrival to its result; in the
\* store specifications a task serves one request after another.
Accept(r) ==
    /\ r \in Serving
    /\ \/ task[r].pc = "idle"
       \/ scope \in {"store", "concurrent", "frame"} /\ task[r].pc = "done"


\* ---------------------------------------------------------------- generate
CLOUD_CODE_MODEL_TAG == "cloud (google/gemini-2.0-flash-exp:free)"

\* f"Expand this website request: {request.prompt}"
ExpandPrompt(prompt) == <<"Expand this website request:">> \o Fmt(prompt)

\* code_prompt: the specification wrapped in the fixed build instructions.
CodePrompt(enhanced_prompt) ==
    <<"Build this website:">> \o Fmt(enhanced_prompt) \o <<"Requirements">>

\* The steps of the save block in the order the handler runs them.
SaveSteps == {"makedirs", "index.html", "styles.css", "script.js", "metadata.json"}
FailPoints == SaveSteps \cup {"never"}

\* The save block of generate_website.  An OSError raised at step failAt
\* (open() fails, the file it was about to write is left as it was) stops
\* the block; the steps before it have taken effect.
SaveProject(folder, html_content, code_blocks, metadata, failAt) ==
    LET f1 == [folder EXCEPT !.exists = TRUE]
        f2 == [f1 EXCEPT !.html = html_content]
        f3 == IF Truthy(code_blocks.css) THEN [f2 EXCEPT !.css = code_blocks.css] ELSE f2
        f4 == IF Truthy(code_blocks.js) THEN [f3 EXCEPT !.js = code_blocks.js] ELSE f3
        f5 == [f4 EXCEPT !.metadata = <<metadata>>]
    IN  CASE failAt = "makedirs"   -> [folder |-> folder, failed |-> TRUE]
          [] failAt = "index.html" -> [folder |-> f1, failed |-> TRUE]
          [] failAt = "styles.css" /\ Truthy(code_blocks.css) -> [folder |-> f2, failed |-> TRUE]
          [] failAt = "script.js" /\ Truthy(code_blocks.js) -> [folder |-> f3, failed |-> TRUE]
          [] failAt = "metadata.json" -> [folder |-> f4, failed |-> TRUE]
          [] OTHER -> [folder |-> f5, failed |-> FALSE]

\* GenerationResponse(success=False, ..., error=str(e)) of the last handler.
GenerateFailure(project_id, error) ==
    [NoResult EXCEPT !.outcome = "returned", !.status_code = 200,
                     !.success = "False", !.project_id = project_id,
                     !.html = EmptyStr, !.css = EmptyStr, !.javascript = EmptyStr,
                     !.enhanced_prompt = None, !.error = error,
                     !.model_used = "local"]

GenerateSuccess(project_id, html_content, code_blocks, enhanced_prompt, model_used) ==
    [NoResult EXCEPT !.outcome = "returned", !.status_code = 200,
                     !.success = "True", !.project_id = project_id,
                     !.html = html_content, !.css = code_blocks.css,
                     !.javascript = code_blocks.js,
                     !.enhanced_prompt = <<"**Website Plan:**">> \o Fmt(enhanced_prompt),
                     !.error = None, !.model_used = model_used]

\* An OSError of the save block reaches the last handler of generate_website.
PersistenceFailure(project_id) == GenerateFailure(project_id, <<"OSError">>)

\* generate_website from the return of the code-generation call to the end
\* of the handler: extract, save, assemble the response.  The result names
\* the finished task, the folder of its project and what the save wrote.
GenerateFinish(t, folder, code_response, model_used, failAt, now) ==
    IF code_response = None
    THEN \* re.search(None) raises TypeError, caught by the last handler
         [task |-> Finish(t, GenerateFailure(t.project_id, <<"TypeError">>)),
          folder |-> folder, saved |-> "not tried", save |-> NeverSaved]
    ELSE LET code_blocks  == extract_code_blocks(code_response)
             html_content == Or(code_blocks.html, code_response)
             metadata == [project_id |-> t.project_id,
                          original_prompt |-> t.request.prompt,
                          enhanced_prompt |-> t.enhanced_prompt,
                          created_at |-> now,
                          model_used |-> model_used]
             saved == SaveProject(folder, html_content, code_blocks, metadata, failAt)
             wrote == [status |-> IF saved.failed THEN "failed" ELSE "ok",
                       html |-> html_content, css |-> code_blocks.css,
                       js |-> code_blocks.js, metadata |-> <<metadata>>]
         IN  IF saved.failed
             THEN [task |-> Finish([t EXCEPT !.persisted = "failed"],
                                   PersistenceFailure(t.project_id)),
                   folder |-> saved.folder, saved |-> "failed", save |-> wrote]
             ELSE [task |-> Finish([t EXCEPT !.persisted = "ok"],
                                   GenerateSuccess(t.project_id, html_content, code_blocks,
                                                   t.enhanced_prompt, model_used)),
                   folder |-> saved.folder, saved |-> "ok", save |-> wrote]

\* As GenerateComplete, were every project saved in the folder of the
\* identifier the clients supply instead of its own.
GenerateCompleteInOneFolder(r, t, code_response, model_used, failAt) ==
    LET pid  == t.project_id
        done == GenerateFinish(t, store["a"], code_response, model_used, failAt, clock)
    IN  /\ task' = [task EXCEPT ![r] = done.task]
        /\ store' = [store EXCEPT !["a"] = done.folder]
        /\ last_save' = IF done.saved = "not tried" THEN last_save
                        ELSE [last_save EXCEPT ![pid] = done.save]
        /\ save_log' = IF done.saved = "ok"
                       THEN [save_log EXCEPT ![pid] = @ \cup {done.save}]
                       ELSE save_log

\* The code-generation call returned code_response: the handler runs to its end.
GenerateComplete(r, t, code_response, model_used, failAt) ==
    LET pid  == t.project_id
        done == GenerateFinish(t, store[pid], code_response, model_used, failAt, clock)
    IN  /\ task' = [task EXCEPT ![r] = done.task]
        /\ store' = [store EXCEPT ![pid] = done.folder]
        /\ last_save' = IF done.saved = "not tried" THEN last_save
                        ELSE [last_save EXCEPT ![pid] = done.save]
        /\ save_log' = IF done.saved = "ok"
                       THEN [save_log EXCEPT ![pid] = @ \cup {done.save}]
                       ELSE save_log

\* Step 2 begins: the primary code-generation call.
StartGenerating(t) ==
    Await(t, "gen_primary", Primary, "generate", CodePrompt(t.enhanced_prompt))

\* POST /api/generate arrives; the handler runs to its first provider call.
GenerateStart(r) ==
    /\ Accept(r)
    /\ clock <= MaxSaves
    /\ \E prompt \in Prompts, pid \in ClientIds \cup {NoId}, enhance \in EnhanceChoices,
          uuid \in UuidIds :
         LET request == [NoRequest EXCEPT !.prompt = prompt, !.project_id = pid,
                                          !.enhance_prompt = enhance]
             t0 == [IdleTask EXCEPT !.kind = "generate", !.request = request,
                                    !.project_id = IF pid # NoId THEN pid ELSE uuid,
                                    !.enhanced_prompt = prompt]
         IN  task' = [task EXCEPT ![r] =
                        IF enhance
                        THEN Await(t0, "enh_primary", Primary, "enhance", ExpandPrompt(prompt))
                        ELSE StartGenerating(t0)]
    /\ clock' = clock + 1
    /\ UNCHANGED <<config, store, last_save, save_log>>

\* The first enhancement call returns or raises.
GenerateEnhPrimaryReturn(r) ==
    /\ task[r].kind = "generate" /\ task[r].pc = "enh_primary"
    /\ \E ok \in BOOLEAN, text \in BriefTexts :
         LET t1 == Resume(task[r], ok, text)
         IN  task' = [task EXCEPT ![r] =
                        IF ok
                        THEN StartGenerating([t1 EXCEPT !.enhanced_prompt = text])
                        ELSE \* except Exception: fall back to the local model
                             Await(t1, "enh_fallback", Local, "enhance",
                                   ExpandPrompt(t1.request.prompt))]
    /\ UNCHANGED <<config, store, clock, last_save, save_log>>

\* As EnhancementGivenUp, were the failure of the second call not passed over.
EnhancementGivenUpRaises(t) == Finish(t, Raised(500, OllamaError))

\* except: pass.  Step 1 ends with enhanced_prompt as it was.
EnhancementGivenUp(t) == StartGenerating(t)

\* The second enhancement call returns or raises; a failure is passed over.
GenerateEnhFallbackReturn(r) ==
    /\ task[r].kind = "generate" /\ task[r].pc = "enh_fallback"
    /\ \E ok \in BOOLEAN, text \in BriefTexts :
         LET t1 == Resume(task[r], ok, text)
         IN  task' = [task EXCEPT ![r] =
                        IF ok
                        THEN StartGenerating([t1 EXCEPT !.enhanced_prompt = text])
                        ELSE EnhancementGivenUp(t1)]
    /\ UNCHANGED <<config, store, clock, last_save, save_log>>

\* The primary code-generation call raised.
PrimaryFailed(t) ==
    IF use_cloud /\ USE_CLOUD_FALLBACK
    THEN \* fall back to the local model
         Await(t, "gen_fallback", Local, "generate", CodePrompt(t.enhanced_prompt))
    ELSE \* raise: the HTTPException passes the handlers and leaves generate_website
         Finish(t, Raised(500, ProviderError(Primary)))

\* The primary code-generation call returns or raises.
GeneratePrimaryReturn(r) ==
    /\ task[r].kind = "generate" /\ task[r].pc = "gen_primary"
    /\ \E ok \in BOOLEAN, text \in ProviderAnswers, failAt \in FailPoints :
         LET t1 == Resume(task[r], ok, text)
         IN  IF ok
             THEN GenerateComplete(r, t1, text,
                      IF use_cloud THEN CLOUD_CODE_MODEL_TAG ELSE "local", failAt)
             ELSE /\ failAt = "never"
                  /\ task' = [task EXCEPT ![r] = PrimaryFailed(t1)]
                  /\ UNCHANGED <<store, last_save, save_log>>
    /\ UNCHANGED <<config, clock>>

\* The fallback code-generation call (local model) returns or raises.
GenerateFallbackReturn(r) ==
    /\ task[r].kind = "generate" /\ task[r].pc = "gen_fallback"
    /\ \E ok \in BOOLEAN, text \in ProviderAnswers, failAt \in FailPoints :
         LET t1 == Resume(task[r], ok, text)
         IN  IF ok
             THEN GenerateComplete(r, t1, text, "local (fallback)", failAt)
             ELSE /\ failAt = "never"
                  /\ task' = [task EXCEPT ![r] = Finish(t1, Raised(500, OllamaError))]
                  /\ UNCHANGED <<store, last_save, save_log>>
    /\ UNCHANGED <<config, clock>>

\* ---------------------------------------------------------------- enhance
\* f"Expand this idea into a full spec: {request.prompt}"
IdeaPrompt(prompt) == <<"Expand this idea into a full spec:">> \o Fmt(prompt)

\* POST /api/enhance arrives; the handler runs to its provider call.
EnhanceStart(r) ==
    /\ Accept(r)
    /\ \E prompt \in Prompts :
         LET t0 == [IdleTask EXCEPT !.kind = "enhance",
                                    !.request = [NoRequest EXCEPT !.prompt = prompt]]
         IN  task' = [task EXCEPT ![r] =
                        Await(t0, "enhance_call", Primary, "enhance", IdeaPrompt(prompt))]
    /\ UNCHANGED <<config, store, clock, last_save, save_log>>

\* The provider call of enhance_prompt_endpoint returns or raises.
EnhanceReturn(r) ==
    /\ task[r].kind = "enhance" /\ task[r].pc = "enhance_call"
    /\ \E ok \in BOOLEAN, text \in BriefTexts :
         LET t1 == Resume(task[r], ok, text)
         IN  task' = [task EXCEPT ![r] =
                        IF ok
                        THEN Finish(t1, [NoResult EXCEPT !.outcome = "returned",
                                                         !.status_code = 200,
                                                         !.enhanced_prompt = text])
                        ELSE \* raise HTTPException(status_code=500, detail=str(e))
                             Finish(t1, Raised(500, ProviderError(Primary)))]
    /\ UNCHANGED <<config, store, clock, last_save, save_log>>

\* ---------------------------------------------------------------- chat
\* The context string: the three current artifacts, an absent one replaced
\* by its placeholder, then the user message.
ChatContext(request) ==
    <<"Current HTML:">> \o Or(request.current_html, <<"No HTML yet">>)
    \o <<"Current CSS:">> \o Or(request.current_css, <<"No CSS yet">>)
    \o <<"Current JavaScript:">> \o Or(request.current_js, <<"No JavaScript yet">>)
    \o <<"User request:">> \o request.message

\* As ChatFailure, were HTTPException re-raised as in generate_website.
ChatFailureReraised(error) == Raised(500, error)

\* The dict chat_modify returns from its last handler.
ChatFailure(error) ==
    [NoResult EXCEPT !.outcome = "returned", !.status_code = 200,
                     !.success = "False", !.error = error]

\* As ChatFinish, were the local model consulted as well after an answer.
ChatFinishAsksLocalToo(t, response, model_used) ==
    Await(t, "chat_fallback", Local, "chat", ChatContext(t.request))

\* chat_modify from the return of the provider call to the end of the handler.
ChatFinish(t, response, model_used) ==
    IF response = None
    THEN Finish(t, ChatFailure(<<"TypeError">>))
    ELSE LET code_blocks == extract_code_blocks(response)
         IN  Finish(t, [NoResult EXCEPT
                 !.outcome = "returned", !.status_code = 200,
                 !.success = "True", !.project_id = t.request.project_id,
                 !.html = Or(code_blocks.html, t.request.current_html),
                 !.css = Or(code_blocks.css, t.request.current_css),
                 !.javascript = Or(code_blocks.js, t.request.current_js),
                 !.assistant_response = response,
                 !.model_used = model_used])

\* POST /api/chat arrives; the handler runs to its first provider call.
ChatStart(r) ==
    /\ Accept(r)
    /\ \E pid \in ClientIds, html \in CurrentValues, css \in CurrentValues,
          js \in CurrentValues :
         LET request == [NoRequest EXCEPT !.project_id = pid, !.message = <<Other>>,
                                          !.current_html = html, !.current_css = css,
                                          !.current_js = js]
             t0 == [IdleTask EXCEPT !.kind = "chat", !.request = request]
         IN  task' = [task EXCEPT ![r] =
                        Await(t0, "chat_primary", Primary, "chat", ChatContext(request))]
    /\ UNCHANGED <<config, store, clock, last_save, save_log>>

\* As ChatPrimaryReturn, were the answer written to index.html of the
\* project the request names.
ChatPrimaryReturnSaves(r) ==
    /\ task[r].kind = "chat" /\ task[r].pc = "chat_primary"
    /\ \E text \in ProviderTexts :
         LET t1 == Resume(task[r], TRUE, text)
             pid == t1.request.project_id
         IN  /\ task' = [task EXCEPT ![r] = ChatFinish(t1, text, "local")]
             /\ store' = [store EXCEPT ![pid] = [@ EXCEPT !.exists = TRUE, !.html = text]]
    /\ UNCHANGED <<config, clock, last_save, save_log>>

\* The primary provider call of chat_modify returns or raises.
ChatPrimaryReturn(r) ==
    /\ task[r].kind = "chat" /\ task[r].pc = "chat_primary"
    /\ \E ok \in BOOLEAN, text \in ProviderAnswers :
         LET t1 == Resume(task[r], ok, text)
         IN  task' = [task EXCEPT ![r] =
                 IF ok
                 THEN ChatFinish(t1, text,
                                 IF use_cloud THEN CLOUD_CODE_MODEL_TAG ELSE "local")
                 ELSE IF use_cloud /\ USE_CLOUD_FALLBACK
                 THEN Await(t1, "chat_fallback", Local, "chat", ChatContext(t1.request))
                 ELSE \* raise, caught by the last handler
                      Finish(t1, ChatFailure(ProviderError(Primary)))]
    /\ UNCHANGED <<config, store, clock, last_save, save_log>>

\* The fallback provider call of chat_modify (local model) returns or raises.
ChatFallbackReturn(r) ==
    /\ task[r].kind = "chat" /\ task[r].pc = "chat_fallback"
    /\ \E ok \in BOOLEAN, text \in ProviderAnswers :
         LET t1 == Resume(task[r], ok, text)
         IN  task' = [task EXCEPT ![r] =
                 IF ok
                 THEN ChatFinish(t1, text, "local (fallback)")
                 ELSE Finish(t1, ChatFailure(OllamaError))]
    /\ UNCHANGED <<config, store, clock, last_save, save_log>>

\* ---------------------------------------------------------------- project store
\* As ReadOrEmpty, were the content not initialised to "".
ReadOrNone(file) == IF file = Missing THEN None ELSE file

\* f.read() of a file that exists, "" otherwise.
ReadOrEmpty(file) == IF file = Missing THEN EmptyStr ELSE file

\* GET /api/projects/{project_id}: the whole handler (it never suspends).
get_project(r) ==
    /\ Accept(r)
    /\ \E pid \in ProjectIds :
         LET folder == store[pid]
             t0 == [IdleTask EXCEPT !.kind = "get_project", !.project_id = pid]
         IN  task' = [task EXCEPT ![r] =
                 IF ~folder.exists
                 THEN Finish(t0, Raised(404, <<"Project not found">>))
                 ELSE Finish(t0, [NoResult EXCEPT
                         !.outcome = "returned", !.status_code = 200,
                         !.success = "True", !.project_id = pid,
                         !.html = ReadOrEmpty(folder.html),
                         !.css = ReadOrEmpty(folder.css),
                         !.javascript = ReadOrEmpty(folder.js),
                         !.metadata = folder.metadata])]
    /\ UNCHANGED <<config, store, clock, last_save, save_log>>

\* created_at of a folder without metadata.json: the empty string, which
\* sorts below every timestamp.
NoTime == 0

\* [:50] of the preview of a prompt.
PreviewLen == 50

\* metadata.get("original_prompt", folder_name)[:50] + "..."
Preview(original_prompt) ==
    SubSeq(original_prompt, 1, Min({Len(original_prompt), PreviewLen})) \o <<"...">>

\* The entry list_projects appends for one folder.
Summary(folder_name, folder) ==
    IF folder.metadata # <<>>
    THEN LET metadata == folder.metadata[1]
         IN  [project_id |-> metadata.project_id,
              name |-> Preview(metadata.original_prompt),
              created_at |-> metadata.created_at,
              model_used |-> metadata.model_used]
    ELSE [project_id |-> folder_name, name |-> <<folder_name>>,
          created_at |-> NoTime, model_used |-> "unknown"]

\* The orders in which os.listdir can report a set of folders.
Listings(folders) ==
    {order \in [1..Cardinality(folders) -> folders] :
        \A i, j \in DOMAIN order : i # j => order[i] # order[j]}

\* x placed behind every entry that is not older than it.
RECURSIVE InsertNewestFirst(_, _)
InsertNewestFirst(sorted, x) ==
    IF sorted = <<>> THEN <<x>>
    ELSE IF Head(sorted).created_at >= x.created_at
    THEN <<Head(sorted)>> \o InsertNewestFirst(Tail(sorted), x)
    ELSE <<x>> \o sorted

\* As SortNewestFirst, were the list left in the order of os.listdir.
ListdirOrder(projects) == projects

\* projects.sort(key=created_at, reverse=True): descending, and entries with
\* equal keys keep their order.
RECURSIVE SortNewestFirst(_)
SortNewestFirst(projects) ==
    IF projects = <<>> THEN <<>>
    ELSE InsertNewestFirst(SortNewestFirst(SubSeq(projects, 1, Len(projects) - 1)),
                           projects[Len(projects)])

\* GET /api/projects: the whole handler (it never suspends).  The key count
\* of the body is the length of projects.
list_projects(r) ==
    /\ Accept(r)
    /\ \E order \in Listings({p \in ProjectIds : store[p].exists}) :
         LET t0 == [IdleTask EXCEPT !.kind = "list_projects"]
             projects == [i \in DOMAIN order |-> Summary(order[i], store[order[i]])]
         IN  task' = [task EXCEPT ![r] =
                 Finish(t0, [NoResult EXCEPT
                     !.outcome = "returned", !.status_code = 200,
                     !.success = "True",
                     !.projects = SortNewestFirst(projects)])]
    /\ UNCHANGED <<config, store, clock, last_save, save_log>>

\* ---------------------------------------------------------------- code_mcp
\* As ToolFailure, were the error of the first call (ollama_error) the one
\* that is reported.
ToolFailureOfFirst(error) ==
    [NoResult EXCEPT !.outcome = "returned", !.status_code = 200,
                     !.success = "False", !.error = OllamaError]

\* The dict a code_mcp tool returns from its handler.
ToolFailure(error) ==
    [NoResult EXCEPT !.outcome = "returned", !.status_code = 200,
                     !.success = "False", !.error = error]

\* generate_html of code_mcp/server.py from the return of generate_code to
\* the end of the tool.
GenerateHtmlFinish(t, response) ==
    IF response = None
    THEN Finish(t, ToolFailure(<<"TypeError">>))
    ELSE LET code_blocks == extract_code_blocks(response)
         IN  Finish(t, [NoResult EXCEPT
                 !.outcome = "returned", !.status_code = 200,
                 !.success = "True",
                 !.html = Or(code_blocks.html, response),
                 !.model_used = IF MentionsOllama(OLLAMA_HOST) THEN "local" ELSE "cloud"])

\* The tool is invoked; generate_code calls the local model first.
GenerateHtmlStart(r) ==
    /\ Accept(r)
    /\ \E prompt \in Prompts :
         LET t0 == [IdleTask EXCEPT !.kind = "generate_html",
                                    !.request = [NoRequest EXCEPT !.prompt = prompt]]
         IN  task' = [task EXCEPT ![r] =
                        Await(t0, "mcp_primary", Local, "generate", CodePrompt(prompt))]
    /\ UNCHANGED <<config, store, clock, last_save, save_log>>

\* call_ollama of generate_code returns or raises.
GenerateCodeOllamaReturn(r) ==
    /\ task[r].kind = "generate_html" /\ task[r].pc = "mcp_primary"
    /\ \E ok \in BOOLEAN, text \in ProviderAnswers :
         LET t1 == Resume(task[r], ok, text)
         IN  task' = [task EXCEPT ![r] =
                 IF ok
                 THEN GenerateHtmlFinish(t1, text)
                 ELSE IF USE_CLOUD_FALLBACK /\ OPENROUTER_API_KEY # ""
                 THEN Await(t1, "mcp_fallback", Cloud, "generate", t1.inflight.prompt)
                 ELSE \* raise ollama_error, caught by the tool
                      Finish(t1, ToolFailure(OllamaError))]
    /\ UNCHANGED <<config, store, clock, last_save, save_log>>

\* call_openrouter of generate_code returns or raises.
GenerateCodeOpenRouterReturn(r) ==
    /\ task[r].kind = "generate_html" /\ task[r].pc = "mcp_fallback"
    /\ \E ok \in BOOLEAN, text \in ProviderAnswers :
         LET t1 == Resume(task[r], ok, text)
         IN  task' = [task EXCEPT ![r] =
                 IF ok
                 THEN GenerateHtmlFinish(t1, text)
                 ELSE Finish(t1, ToolFailure(OpenRouterError))]
    /\ UNCHANGED <<config, store, clock, last_save, save_log>>

\* ---------------------------------------------------------------- nlp_mcp
\* f'User's prompt: "{user_prompt}" ...' of the enhance_prompt tool.
EnhancementPrompt(user_prompt) ==
    <<"User's prompt:">> \o Fmt(user_prompt) \o <<"Please expand this">>

\* enhance_prompt of nlp_mcp/server.py from the return of generate_text to
\* the end of the tool.  json.loads raises TypeError for None, caught by the
\* last handler, and JSONDecodeError for the texts enumerated here (prose
\* and the empty text), after which the text is returned as it is; the
\* result field enhanced_prompt holds the key enhanced_specification.
EnhancePromptFinish(t, response) ==
    IF response = None
    THEN Finish(t, ToolFailure(<<"TypeError">>))
    ELSE Finish(t, [NoResult EXCEPT
             !.outcome = "returned", !.status_code = 200,
             !.success = "True",
             !.enhanced_prompt = response,
             !.model_used = IF MentionsOllama(OLLAMA_HOST) THEN "local" ELSE "cloud"])

\* The tool is invoked; generate_text calls the local model first.
EnhancePromptStart(r) ==
    /\ Accept(r)
    /\ \E user_prompt \in Prompts :
         LET t0 == [IdleTask EXCEPT !.kind = "enhance_prompt",
                                    !.request = [NoRequest EXCEPT !.prompt = user_prompt]]
         IN  task' = [task EXCEPT ![r] =
                        Await(t0, "nlp_primary", Local, "enhance",
                              EnhancementPrompt(user_prompt))]
    /\ UNCHANGED <<config, store, clock, last_save, save_log>>

\* call_ollama of generate_text returns or raises.
GenerateTextOllamaReturn(r) ==
    /\ task[r].kind = "enhance_prompt" /\ task[r].pc = "nlp_primary"
    /\ \E ok \in BOOLEAN, text \in BriefTexts :
         LET t1 == Resume(task[r], ok, text)
         IN  task' = [task EXCEPT ![r] =
                 IF ok
                 THEN EnhancePromptFinish(t1, text)
                 ELSE IF USE_CLOUD_FALLBACK /\ OPENROUTER_API_KEY # ""
                 THEN Await(t1, "nlp_fallback", Cloud, "enhance", t1.inflight.prompt)
                 ELSE \* raise ollama_error, caught by the tool
                      Finish(t1, ToolFailure(OllamaError))]
    /\ UNCHANGED <<config, store, clock, last_save, save_log>>

\* call_openrouter of generate_text returns or raises.
GenerateTextOpenRouterReturn(r) ==
    /\ task[r].kind = "enhance_prompt" /\ task[r].pc = "nlp_fallback"
    /\ \E ok \in BOOLEAN, text \in BriefTexts :
         LET t1 == Resume(task[r], ok, text)
         IN  task' = [task EXCEPT ![r] =
                 IF ok
                 THEN EnhancePromptFinish(t1, text)
                 ELSE Finish(t1, ToolFailure(OpenRouterError))]
    /\ UNCHANGED <<config, store, clock, last_save, save_log>>

\* ---------------------------------------------------------------- router_mcp
\* Texts the router's provider can answer with: prose, an empty JSON object,
\* and a JSON object of the plan structure the system prompt asks for.
NotJson  == <<"not json">>
EmptyObj == <<"{}">>
PlanJson == <<"{code_task, images, videos, audio}">>
RouterTexts == {NotJson, EmptyObj, PlanJson}

\* How an HTTP request of call_llm ends: a response with status 200, a
\* response with another status, or an exception (no response).
Http200   == "200"
HttpOther == "non-200"
HttpRaise == "raised"
HttpOutcomes == {Http200, HttpOther, HttpRaise}

\* The request of call_llm ended; only a 200 response yields a text.
RouterResume(t, outcome, text) ==
    [t EXCEPT !.inflight = NoCall,
              !.calls = Append(@, [provider |-> t.inflight.provider,
                                   stage |-> t.inflight.stage,
                                   prompt |-> t.inflight.prompt,
                                   ok |-> outcome = Http200,
                                   text |-> IF outcome = Http200 THEN text ELSE Missing,
                                   http |-> outcome])]

\* route_tasks returns what call_llm returned, as it is.
RouteResult(response) ==
    [NoResult EXCEPT !.outcome = "returned", !.value = response]

\* call_llm after its OpenRouter branch: the request to Ollama.
RouteOllama(t) == Await(t, "route_local", Local, "route", t.request.prompt)

\* The tool is invoked; call_llm tries OpenRouter if a key exists.
RouteStart(r) ==
    /\ Accept(r)
    /\ \E specification \in Prompts :
         LET t0 == [IdleTask EXCEPT !.kind = "route_tasks",
                                    !.request = [NoRequest EXCEPT !.prompt = specification]]
         IN  task' = [task EXCEPT ![r] =
                 IF OPENROUTER_API_KEY # ""
                 THEN Await(t0, "route_cloud", Cloud, "route", specification)
                 ELSE RouteOllama(t0)]
    /\ UNCHANGED <<config, store, clock, last_save, save_log>>

\* The OpenRouter request of call_llm ends: 200 returns the content, any
\* other status and any exception lead on to Ollama.
RouteOpenRouterReturn(r) ==
    /\ task[r].kind = "route_tasks" /\ task[r].pc = "route_cloud"
    /\ \E outcome \in HttpOutcomes, text \in RouterTexts \cup {None} :
         LET t1 == RouterResume(task[r], outcome, text)
         IN  task' = [task EXCEPT ![r] =
                 IF outcome = Http200
                 THEN Finish(t1, RouteResult(text))
                 ELSE RouteOllama(t1)]
    /\ UNCHANGED <<config, store, clock, last_save, save_log>>

\* The Ollama request of call_llm ends: 200 returns the response text, an
\* exception returns "{}", and after any other status the function reaches
\* its end without a return statement.
RouteOllamaReturn(r) ==
    /\ task[r].kind = "route_tasks" /\ task[r].pc = "route_local"
    /\ \E outcome \in HttpOutcomes, text \in RouterTexts \cup {None} :
         LET t1 == RouterResume(task[r], outcome, text)
         IN  task' = [task EXCEPT ![r] =
                 CASE outcome = Http200   -> Finish(t1, RouteResult(text))
                   [] outcome = HttpRaise -> Finish(t1, RouteResult(EmptyObj))
                   [] OTHER               -> Finish(t1, RouteResult(None))]
    /\ UNCHANGED <<config, store, clock, last_save, save_log>>

\* ---------------------------------------------------------------- video_mcp
\* The statuses the remote service reports for a prediction; the last three
\* are final.  The field prediction of a task is the status of the
\* prediction its request created, "none" before that.
Replicate == "replicate"
FinalStatuses == {"succeeded", "failed", "canceled"}
PredictionStatuses == {"starting", "processing"} \cup FinalStatuses

ReplicateError == <<"Replicate error">>
VideoOutput == <<"https://replicate.delivery/output.mp4">>

\* An HTTP request of call_replicate_video is sent.
VideoRequest(t, pc) ==
    [t EXCEPT !.pc = pc,
              !.inflight = [provider |-> Replicate, stage |-> "video",
                            prompt |-> t.request.prompt]]

\* The tool is invoked.  Without a token it returns at once; with one,
\* call_replicate_video posts the prediction.
VideoStart(r) ==
    /\ Accept(r)
    /\ \E prompt \in Prompts, REPLICATE_API_TOKEN \in {"", "r8_token"} :
         LET t0 == [IdleTask EXCEPT !.kind = "generate_ai_video",
                                    !.request = [NoRequest EXCEPT !.prompt = prompt]]
         IN  task' = [task EXCEPT ![r] =
                 IF REPLICATE_API_TOKEN = ""
                 THEN Finish(t0, ToolFailure(<<"Video generation requires REPLICATE_API_TOKEN">>))
                 ELSE VideoRequest(t0, "video_create")]
    /\ UNCHANGED <<config, store, clock, last_save, save_log>>

\* The POST that starts the prediction ends: an exception or an error
\* status (raise_for_status) is wrapped and reaches the tool; otherwise the
\* prediction exists and the first status request is sent.
VideoCreateReturn(r) ==
    /\ task[r].kind = "generate_ai_video" /\ task[r].pc = "video_create"
    /\ \E ok \in BOOLEAN :
         LET t1 == [task[r] EXCEPT !.inflight = NoCall]
         IN  task' = [task EXCEPT ![r] =
                 IF ok
                 THEN VideoRequest([t1 EXCEPT !.prediction = "starting"], "video_poll")
                 ELSE Finish(t1, ToolFailure(ReplicateError))]
    /\ UNCHANGED <<config, store, clock, last_save, save_log>>

\* The remote service moves the prediction on; a final status stays.
PredictionAdvances(r) ==
    /\ task[r].kind = "generate_ai_video" /\ task[r].pc \in {"video_poll", "video_sleep"}
    /\ \E status \in PredictionStatuses :
         /\ \/ task[r].prediction = "starting" /\ status # "starting"
            \/ task[r].prediction = "processing" /\ status \in FinalStatuses
         /\ task' = [task EXCEPT ![r].prediction = status]
    /\ UNCHANGED <<config, store, clock, last_save, save_log>>

\* A status request ends: an exception is wrapped and reaches the tool;
\* "succeeded" returns the output, "failed" raises, and after any other
\* status the loop sleeps.
VideoPollReturn(r) ==
    /\ task[r].kind = "generate_ai_video" /\ task[r].pc = "video_poll"
    /\ \E ok \in BOOLEAN :
         LET t1 == [task[r] EXCEPT !.inflight = NoCall]
         IN  task' = [task EXCEPT ![r] =
                 CASE ~ok -> Finish(t1, ToolFailure(ReplicateError))
                   [] ok /\ t1.prediction = "succeeded" ->
                        Finish(t1, [NoResult EXCEPT !.outcome = "returned",
                                                    !.status_code = 200,
                                                    !.success = "True",
                                                    !.video_url = VideoOutput])
                   [] ok /\ t1.prediction = "failed" ->
                        Finish(t1, ToolFailure(ReplicateError))
                   [] OTHER -> [t1 EXCEPT !.pc = "video_sleep"]]
    /\ UNCHANGED <<config, store, clock, last_save, save_log>>

\* asyncio.sleep(5) ends and the loop sends the next status request.
VideoWake(r) ==
    /\ task[r].kind = "generate_ai_video" /\ task[r].pc = "video_sleep"
    /\ task' = [task EXCEPT ![r] = VideoRequest(task[r], "video_poll")]
    /\ UNCHANGED <<config, store, clock, last_save, save_log>>

\* ---------------------------------------------------------------- cancellation
\* As Cancelled, were CancelledError caught like the failure of a provider
\* by the handlers around the call: the local model is called next.
CancelledAsFailure(t) ==
    Await([t EXCEPT !.cancelled = [provider |-> t.inflight.provider,
                                   stage |-> t.inflight.stage,
                                   after |-> Len(t.calls)]],
          IF t.kind = "chat" THEN "chat_fallback" ELSE "gen_fallback",
          Local, t.inflight.stage, t.inflight.prompt)

\* asyncio raises CancelledError at the await of the call in flight.  It is a
\* BaseException: `except Exception` and `except HTTPException` let it pass
\* and it ends the task.  Only the bare `except: pass` around the second
\* enhancement call catches it, and the handler goes on to step 2.
Cancelled(t) ==
    LET t1 == [t EXCEPT !.inflight = NoCall,
                        !.cancelled = [provider |-> t.inflight.provider,
                                       stage |-> t.inflight.stage,
                                       after |-> Len(t.calls)]]
    IN  IF t.kind = "generate" /\ t.pc = "enh_fallback"
        THEN StartGenerating(t1)
        ELSE [t1 EXCEPT !.pc = "cancelled",
                        !.result = [NoResult EXCEPT !.outcome = "cancelled"]]

\* The task of a request is cancelled while a provider call is in flight.
Cancel(r) ==
    /\ task[r].inflight # NoCall
    /\ task[r].cancelled = NoCancel
    /\ task' = [task EXCEPT ![r] = Cancelled(task[r])]
    /\ UNCHANGED <<config, store, clock, last_save, save_log>>

\* ---------------------------------------------------------------- specifications
Configured ==
    /\ PREFER_CLOUD \in BOOLEAN
    /\ USE_CLOUD_FALLBACK \in BOOLEAN
    /\ OPENROUTER_API_KEY \in {"", "sk-or-v1"}
    /\ OLLAMA_HOST \in OllamaHosts

Empty ==
    /\ task = [r \in Reqs |-> IdleTask]
    /\ store = [p \in ProjectIds |-> EmptyFolder]
    /\ clock = 1
    /\ last_save = [p \in ProjectIds |-> NeverSaved]
    /\ save_log = [p \in ProjectIds |-> {}]

GenerateNext(r) ==
    \/ GenerateStart(r)
    \/ GenerateEnhPrimaryReturn(r)
    \/ GenerateEnhFallbackReturn(r)
    \/ GeneratePrimaryReturn(r)
    \/ GenerateFallbackReturn(r)

\* The request workflows of the backend and of code_mcp, every configuration.
Init == Configured /\ scope = "workflow" /\ Empty

Next ==
    \E r \in Reqs :
        \/ GenerateNext(r)
        \/ EnhanceStart(r)
        \/ EnhanceReturn(r)
        \/ ChatStart(r)
        \/ ChatPrimaryReturn(r)
        \/ ChatFallbackReturn(r)
        \/ GenerateHtmlStart(r)
        \/ GenerateCodeOllamaReturn(r)
        \/ GenerateCodeOpenRouterReturn(r)
        \/ EnhancePromptStart(r)
        \/ GenerateTextOllamaReturn(r)
        \/ GenerateTextOpenRouterReturn(r)
        \/ RouteStart(r)
        \/ RouteOpenRouterReturn(r)
        \/ RouteOllamaReturn(r)
        \/ Cancel(r)

Spec == Init /\ [][Next]_vars

\* The project store under repeated saves and loads.
InitStore ==
    /\ PREFER_CLOUD = TRUE /\ USE_CLOUD_FALLBACK = TRUE
    /\ OPENROUTER_API_KEY = "sk-or-v1" /\ OLLAMA_HOST = "http://localhost:11434"
    /\ scope = "store" /\ Empty

NextStore == \E r \in Reqs : GenerateNext(r) \/ get_project(r) \/ list_projects(r)

SpecStore == InitStore /\ [][NextStore]_vars

\* chat over every response text up to MaxLen tokens.
InitChat ==
    /\ PREFER_CLOUD \in BOOLEAN /\ USE_CLOUD_FALLBACK = TRUE
    /\ OPENROUTER_API_KEY = "sk-or-v1" /\ OLLAMA_HOST = "http://localhost:11434"
    /\ scope = "texts" /\ Empty

NextChat == \E r \in Reqs : ChatStart(r) \/ ChatPrimaryReturn(r) \/ ChatFallbackReturn(r)

SpecChat == InitChat /\ [][NextChat]_vars

\* Two requests of any two workflows that run a fallback chain (generate,
\* chat, route) are served side by side under one configuration.
InitChains ==
    /\ PREFER_CLOUD \in BOOLEAN /\ USE_CLOUD_FALLBACK \in BOOLEAN
    /\ OPENROUTER_API_KEY \in {"", "sk-or-v1"} /\ OLLAMA_HOST = "http://localhost:11434"
    /\ scope = "chains" /\ Empty

NextChains ==
    \E r \in Reqs :
        \/ GenerateNext(r)
        \/ ChatStart(r)
        \/ ChatPrimaryReturn(r)
        \/ ChatFallbackReturn(r)
        \/ RouteStart(r)
        \/ RouteOpenRouterReturn(r)
        \/ RouteOllamaReturn(r)

SpecChains == InitChains /\ [][NextChains]_vars

\* generate requests that skip the enhancement step and chat requests, one
\* after the other, over a store that fills up.
InitFrame ==
    /\ PREFER_CLOUD = TRUE /\ USE_CLOUD_FALLBACK = TRUE
    /\ OPENROUTER_API_KEY = "sk-or-v1" /\ OLLAMA_HOST = "http://localhost:11434"
    /\ scope = "frame" /\ Empty

NextFrame ==
    \E r \in Reqs :
        \/ GenerateStart(r)
        \/ GeneratePrimaryReturn(r)
        \/ GenerateFallbackReturn(r)
        \/ ChatStart(r)
        \/ ChatPrimaryReturn(r)
        \/ ChatFallbackReturn(r)

SpecFrame == InitFrame /\ [][NextFrame]_vars

\* Two tasks serve generate requests and readers of the store at the same
\* time; the requests use the local model and skip the enhancement step.
InitConcurrent ==
    /\ PREFER_CLOUD = FALSE /\ USE_CLOUD_FALLBACK = FALSE
    /\ OPENROUTER_API_KEY = "" /\ OLLAMA_HOST = "http://localhost:11434"
    /\ scope = "concurrent" /\ Empty

NextConcurrent ==
    \E r \in Reqs :
        \/ GenerateStart(r)
        \/ GeneratePrimaryReturn(r)
        \/ get_project(r)
        \/ list_projects(r)

SpecConcurrent == InitConcurrent /\ [][NextConcurrent]_vars

\* generate_ai_video.  Every HTTP request of the tool ends, every sleep
\* ends, and the remote service brings every prediction to a final status.
NextVideo ==
    \E r \in Reqs :
        \/ VideoStart(r)
        \/ VideoCreateReturn(r)
        \/ PredictionAdvances(r)
        \/ VideoPollReturn(r)
        \/ VideoWake(r)

SpecVideo ==
    /\ Init /\ [][NextVideo]_vars
    /\ \A r \in Reqs :
          /\ WF_vars(VideoCreateReturn(r))
          /\ WF_vars(PredictionAdvances(r))
          /\ WF_vars(VideoPollReturn(r))
          /\ WF_vars(VideoWake(r))

\* ---------------------------------------------------------------- properties
Done(r) == task[r].pc = "done"

\* The provider calls a task has completed in one stage of its handler.
StageCalls(t, stage) == SelectSeq(t.calls, LAMBDA c : c.stage = stage)

AllFailed(calls) == calls # <<>> /\ \A i \in 1..Len(calls) : ~calls[i].ok

Last(calls) == calls[Len(calls)]

\* The stage of a handler that runs the code-generation fallback chain.
ChainStage(kind) == IF kind = "chat" THEN "chat" ELSE "generate"

\* The chain [A, B] the configuration asks for: cloud first iff cloud is
\* preferred; code_mcp has no preference flag and is local first.
ConfiguredChain(kind) ==
    IF kind \in {"generate", "chat"} /\ PREFER_CLOUD
    THEN <<Cloud, Local>> ELSE <<Local, Cloud>>

TwoProviders == OPENROUTER_API_KEY # "" /\ USE_CLOUD_FALLBACK

\* A model_used tag that names the provider.
TagNames(tag, provider) ==
    IF provider = Local THEN tag \in {"local", "local (fallback)"}
    ELSE tag \in {"cloud", CLOUD_CODE_MODEL_TAG}

\* The text a successful response of the handler carries for B's answer.
CarriesOutput(t, text) ==
    /\ t.result.html = (IF t.kind = "chat"
                        THEN Or(extract_code_blocks(text).html, t.request.current_html)
                        ELSE Or(extract_code_blocks(text).html, text))
    /\ t.kind = "chat" => t.result.assistant_response = text

\* C1: with a two-provider chain [A, B] configured (credential present,
\* fallback enabled), when A's call has failed the request goes on to call B
\* after A, and when B's call answers, the successful result carries B's
\* output and is tagged with B -- in generate's code-generation step, in chat
\* and in code_mcp's generate_code.
C1_FallbackToSecond ==
    \A r \in Reqs :
        LET t     == task[r]
            chain == ConfiguredChain(t.kind)
            calls == StageCalls(t, ChainStage(t.kind))
        IN  (/\ Done(r) /\ t.kind \in {"generate", "chat", "generate_html"}
             /\ TwoProviders
             /\ calls # <<>> /\ ~calls[1].ok)
            => /\ calls[1].provider = chain[1]
               /\ Len(calls) = 2 /\ calls[2].provider = chain[2]
               /\ (calls[2].ok /\ t.result.success = "True")
                    => /\ CarriesOutput(t, calls[2].text)
                       /\ TagNames(t.result.model_used, chain[2])

\* C2: when every provider attempted in the Generating step has failed,
\* generate returns a result object with success=false, a non-empty error
\* text and three empty artifacts; no exception leaves the handler.
C2_ExhaustionReturnsFailure ==
    \A r \in Reqs :
        (/\ Done(r) /\ task[r].kind = "generate"
         /\ AllFailed(StageCalls(task[r], "generate")))
        => /\ task[r].result.outcome = "returned"
           /\ task[r].result.success = "False"
           /\ Truthy(task[r].result.error) /\ task[r].result.error # Missing
           /\ task[r].result.html = EmptyStr
           /\ task[r].result.css = EmptyStr
           /\ task[r].result.javascript = EmptyStr

\* C3: chat always ends in a returned result object with an explicit success
\* flag, never in an exception; when every provider it attempted has failed
\* the result has success=false and a non-empty error message.
C3_ChatNeverRaises ==
    \A r \in Reqs :
        (Done(r) /\ task[r].kind = "chat")
        => /\ task[r].result.outcome = "returned"
           /\ task[r].result.success \in {"True", "False"}
           /\ AllFailed(StageCalls(task[r], "chat"))
                => /\ task[r].result.success = "False"
                   /\ task[r].result.error # Missing
                   /\ Truthy(task[r].result.error)

\* Every provider the chat attempted failed, both of a two-provider chain.
C3_Witness ==
    \E r \in Reqs :
        /\ Done(r) /\ task[r].kind = "chat"
        /\ Len(task[r].calls) = 2 /\ AllFailed(task[r].calls)
        /\ task[r].result.success = "False"

\* The enhancement step of a generate task is over and all its calls failed.
EnhancementFailed(t) ==
    /\ t.kind = "generate" /\ t.request.enhance_prompt
    /\ t.pc \notin {"enh_primary", "enh_fallback", "cancelled"}
    /\ AllFailed(StageCalls(t, "enhance"))

\* C4: when every enhancement call of a generate has failed the workflow is
\* in (or past) the Generating step, having called a code-generation
\* provider, and every specification sent to a code-generation provider is
\* the original, unmodified prompt.
C4_EnhancementNeverBlocks ==
    \A r \in Reqs :
        LET t == task[r]
            sent == StageCalls(t, "generate")
        IN  EnhancementFailed(t)
            => /\ t.enhanced_prompt = t.request.prompt
               /\ \/ t.pc \in {"gen_primary", "gen_fallback"} /\ t.inflight.stage = "generate"
                  \/ t.pc = "done" /\ sent # <<>>
               /\ t.inflight.stage = "generate"
                    => t.inflight.prompt = CodePrompt(t.request.prompt)
               /\ \A i \in 1..Len(sent) : sent[i].prompt = CodePrompt(t.request.prompt)

\* Both enhancement calls failed and the generate still succeeded.
C4_Witness ==
    \E r \in Reqs :
        /\ Done(r) /\ EnhancementFailed(task[r])
        /\ Len(StageCalls(task[r], "enhance")) = 2
        /\ task[r].result.success = "True"

\* C5: when every provider call of the standalone enhance fails, enhance
\* returns {enhanced_prompt: the original prompt} instead of failing.
C5_EnhanceDegrades ==
    \A r \in Reqs :
        (Done(r) /\ task[r].kind = "enhance" /\ AllFailed(task[r].calls))
        => /\ task[r].result.outcome = "returned"
           /\ task[r].result.enhanced_prompt = task[r].request.prompt

\* C6: generate never returns success=true with html, css and javascript
\* all empty.
C6_SuccessHasArtifact ==
    \A r \in Reqs :
        (/\ Done(r) /\ task[r].kind = "generate"
         /\ task[r].result.outcome = "returned" /\ task[r].result.success = "True")
        => ~(/\ task[r].result.html = EmptyStr
             /\ task[r].result.css = EmptyStr
             /\ task[r].result.javascript = EmptyStr)

\* C7: when the provider call and the extraction succeeded and a write of
\* the save block failed, generate still returns success=true with the
\* artifacts it produced.
C7_PersistenceFailureKeepsSuccess ==
    \A r \in Reqs :
        LET t == task[r]
            calls == StageCalls(t, "generate")
        IN  (/\ Done(r) /\ t.kind = "generate" /\ t.persisted = "failed")
            => /\ t.result.outcome = "returned"
               /\ t.result.success = "True"
               /\ t.result.html = Or(extract_code_blocks(Last(calls).text).html, Last(calls).text)
               /\ t.result.css = extract_code_blocks(Last(calls).text).css
               /\ t.result.javascript = extract_code_blocks(Last(calls).text).js

\* C8: load(id) returns exactly the artifacts and metadata of the most
\* recent save of id, also when the re-saved style or script is empty.
C8_LoadReturnsLastSave ==
    [][\A r \in Reqs :
        get_project(r) =>
            LET pid   == task'[r].project_id
                saved == last_save[pid]
                res   == task'[r].result
            IN  saved.status = "ok"
                => /\ res.outcome = "returned" /\ res.success = "True"
                   /\ res.html = saved.html
                   /\ res.css = saved.css
                   /\ res.javascript = saved.js
                   /\ res.metadata = saved.metadata]_vars

\* C9: load(id) of an identifier no save has touched ends in the 404
\* HTTPException and returns no result object; load(id) of a project whose
\* folder exists succeeds and returns every absent artifact as "".
C9_LoadUnknownIsNotFound ==
    [][\A r \in Reqs :
        get_project(r) =>
            LET pid    == task'[r].project_id
                folder == store[pid]
                res    == task'[r].result
            IN  /\ last_save[pid].status = "never"
                     => /\ res.outcome = "raised" /\ res.status_code = 404
                        /\ res.success = "<missing>" /\ res.html = Missing
                /\ folder.exists
                     => /\ res.outcome = "returned" /\ res.success = "True"
                        /\ folder.html = Missing => res.html = EmptyStr
                        /\ folder.css = Missing => res.css = EmptyStr
                        /\ folder.js = Missing => res.javascript = EmptyStr
                        /\ folder.html # Missing => res.html = folder.html]_vars

\* A project whose folder holds no index.html and no styles.css was loaded.
C9_Witness ==
    \E r \in Reqs :
        /\ Done(r) /\ task[r].kind = "get_project"
        /\ store[task[r].project_id].exists
        /\ store[task[r].project_id].html = Missing
        /\ store[task[r].project_id].css = Missing
        /\ task[r].result.success = "True"
        /\ task[r].result.html = EmptyStr /\ task[r].result.css = EmptyStr

\* The response has a style fenced block and no markup or script fence.
OnlyStyleBlock(text) ==
    /\ Found(text, {FenceCss})
    /\ \A i \in 1..Len(text) : text[i] \notin {FenceHtml, FenceJs}

\* C10: in a successful chat each returned artifact is the extractor's value
\* when that is non-empty and the caller's current value otherwise, and a
\* response with only a style fenced block leaves markup and script as the
\* caller sent them.
C10_MergeByPresence ==
    \A r \in Reqs :
        LET t    == task[r]
            text == Last(t.calls).text
            e    == extract_code_blocks(text)
        IN  (Done(r) /\ t.kind = "chat" /\ t.result.success = "True")
            => /\ t.result.html = (IF e.html # EmptyStr THEN e.html ELSE t.request.current_html)
               /\ t.result.css = (IF e.css # EmptyStr THEN e.css ELSE t.request.current_css)
               /\ t.result.javascript = (IF e.js # EmptyStr THEN e.js ELSE t.request.current_js)
               /\ OnlyStyleBlock(text)
                    => /\ t.result.html = t.request.current_html
                       /\ t.result.javascript = t.request.current_js

\* One of the three fenced regions the extractor searches for is present.
AnyRegion(response) ==
    \/ Found(response, {FenceHtml})
    \/ Found(response, {FenceCss})
    \/ Found(response, {FenceJs})

\* C12: for every response text chat handed to the extractor: the whole
\* (trimmed) response is the markup artifact, with empty style and script,
\* when no fenced region is present and a document-root marker is; when a
\* fenced region of any kind is present, also an empty one, each artifact is
\* the content of its own region and the whole response is not used; with no
\* region and no marker all three artifacts are empty.
C12_WholeResponseFallback ==
    \A r \in Reqs :
        LET t    == task[r]
            text == Last(t.calls).text
            e    == extract_code_blocks(text)
        IN  (Done(r) /\ t.kind = "chat" /\ t.result.success = "True")
            => /\ (~AnyRegion(text) /\ HasDocRoot(text))
                    => e = [html |-> Strip(text), css |-> EmptyStr, js |-> EmptyStr]
               /\ AnyRegion(text)
                    => e = [html |-> Group(text, {FenceHtml}),
                            css |-> Group(text, {FenceCss}),
                            js |-> Group(text, {FenceJs})]
               /\ (~AnyRegion(text) /\ ~HasDocRoot(text))
                    => e = [html |-> EmptyStr, css |-> EmptyStr, js |-> EmptyStr]

\* The plan route is to return when the provider's text cannot be parsed:
\* codeTask empty, images, videos and audio empty, parse-error flag set.
FlaggedEmptyPlan == <<"{code_task: '', images: [], videos: [], audio: [], parse_error: true}">>

\* C13: route always ends by returning, never in an exception, and when the
\* text its provider answered is not a JSON object of the plan schema
\* ("not json") the value returned is the empty plan with the parse-error
\* flag, not the raw text.
C13_RouteRecoversFromBadJson ==
    \A r \in Reqs :
        LET t == task[r]
        IN  (Done(r) /\ t.kind = "route_tasks")
            => /\ t.result.outcome = "returned"
               /\ (Last(t.calls).ok /\ Last(t.calls).text = NotJson)
                    => /\ t.result.value # NotJson
                       /\ t.result.value = FlaggedEmptyPlan

\* C14: in every successful result of generate, chat, code_mcp.generate_html
\* and nlp_mcp.enhance_prompt the model_used tag names the provider whose
\* call answered last and so produced the returned text: a local tag iff it
\* was the local (Ollama) call, a cloud tag iff it was the cloud (OpenRouter)
\* call.
C14_TagNamesAnsweringProvider ==
    \A r \in Reqs :
        LET t == task[r]
        IN  (/\ Done(r)
             /\ t.kind \in {"generate", "chat", "generate_html", "enhance_prompt"}
             /\ t.result.outcome = "returned" /\ t.result.success = "True")
            => /\ Last(t.calls).ok
               /\ TagNames(t.result.model_used, Last(t.calls).provider)

\* What a load returns is what the save s wrote, in every part.
LoadedFrom(res, s) ==
    /\ res.html = s.html
    /\ res.css = s.css
    /\ res.javascript = s.js
    /\ res.metadata = s.metadata

\* C15: with generate requests for the same project identifier and readers
\* served at the same time, every successful load returns the artifacts and
\* the metadata of one single completed save of that project, never markup
\* of one save with style, script or metadata of another save or of none.
C15_LoadSeesOneSave ==
    [][\A r \in Reqs :
        get_project(r) =>
            LET pid == task'[r].project_id
                res == task'[r].result
            IN  (res.outcome = "returned" /\ res.success = "True")
                => \E s \in save_log[pid] : LoadedFrom(res, s)]_vars

\* C16: a save is all-or-nothing: when a write step of the save of a
\* generate request fails after index.html has been written, the stored
\* project is afterwards exactly what it was before the save began (absent
\* if it did not exist).
C16_FailedSaveLeavesStore ==
    [][\A r \in Reqs :
        LET pid == task[r].project_id
        IN  (/\ task[r].kind = "generate" /\ task[r].pc \in {"gen_primary", "gen_fallback"}
             /\ task'[r].pc = "done" /\ task'[r].persisted = "failed"
             /\ store'[pid].html = last_save'[pid].html)
            => store'[pid] = store[pid]]_vars

\* C17: once the task of a generate or chat request has been cancelled with
\* a provider call of a fallback chain in flight, that call is abandoned and
\* no provider call of the same chain is started afterwards.
C17_CancellationStopsChain ==
    \A r \in Reqs :
        LET t == task[r]
        IN  (t.kind \in {"generate", "chat"} /\ t.cancelled # NoCancel)
            => /\ t.inflight.stage # t.cancelled.stage
               /\ \A i \in (t.cancelled.after + 1)..Len(t.calls) :
                      t.calls[i].stage # t.cancelled.stage

\* The call to the first provider of a two-provider chain was cancelled in
\* the Generating step, after a successful enhancement, and the task ended.
C17_Witness ==
    \E r \in Reqs :
        /\ task[r].kind = "generate" /\ task[r].pc = "cancelled"
        /\ use_cloud /\ USE_CLOUD_FALLBACK
        /\ task[r].cancelled.stage = "generate"
        /\ task[r].cancelled.provider = Cloud
        /\ task[r].cancelled.after = 1
        /\ task[r].inflight = NoCall

\* The time of the latest completed save of a project.
SavedAt(pid) ==
    LET times == {s.metadata[1].created_at : s \in save_log[pid]}
    IN  CHOOSE m \in times : \A n \in times : n <= m

\* C18: list returns one summary per stored project, and of any two listed
\* projects whose latest completed saves happened at different times the
\* one saved later comes earlier in the list.
C18_ListNewestFirst ==
    [][\A r \in Reqs :
        list_projects(r) =>
            LET res    == task'[r].result
                ps     == res.projects
                stored == {p \in ProjectIds : store[p].exists}
            IN  /\ res.outcome = "returned" /\ res.success = "True"
                /\ Len(ps) = Cardinality(stored)
                /\ \A p \in stored : \E i \in 1..Len(ps) : ps[i].project_id = p
                /\ \A i, j \in 1..Len(ps) :
                      LET p == ps[i].project_id
                          q == ps[j].project_id
                      IN  (/\ save_log[p] # {} /\ save_log[q] # {}
                           /\ SavedAt(p) > SavedAt(q))
                          => i < j]_vars

\* Two projects saved at different times were listed, the later one first.
C18_Witness ==
    \E r \in Reqs :
        /\ Done(r) /\ task[r].kind = "list_projects"
        /\ Len(task[r].result.projects) = 2
        /\ task[r].result.projects[1].created_at > task[r].result.projects[2].created_at
        /\ task[r].result.projects[2].created_at > NoTime

\* A str: neither None nor an absent key.
IsString(x) == x # None /\ x # Missing

\* C19: in every result generate or chat returns, successful or not and for
\* every combination of present and absent current artifacts of a chat
\* request, html, css and javascript are each a string, never null; the
\* empty string stands for an absent artifact.
C19_ArtifactsNeverNull ==
    \A r \in Reqs :
        LET t == task[r]
        IN  (Done(r) /\ t.kind \in {"generate", "chat"} /\ t.result.outcome = "returned")
            => /\ IsString(t.result.html)
               /\ IsString(t.result.css)
               /\ IsString(t.result.javascript)

\* A project identifier that names a project.
IsProjectId(id) == id \notin {NoId, "", "<missing>"}

\* C20: a generate request whose prompt is the empty string causes no
\* provider call and no store write; a project identifier is assigned before
\* any provider call, and every result generate returns carries a non-empty
\* project identifier.
C20_StartValidatesPrompt ==
    \A r \in Reqs :
        LET t == task[r]
        IN  t.kind = "generate"
            => /\ t.request.prompt = EmptyStr
                    => /\ t.inflight = NoCall /\ t.calls = <<>>
                       /\ t.persisted = "not tried"
               /\ (t.inflight # NoCall \/ t.calls # <<>>) => IsProjectId(t.project_id)
               /\ (Done(r) /\ t.result.outcome = "returned")
                    => IsProjectId(t.result.project_id)

\* C21: when every provider request the router attempted has failed, route
\* does not return a plan, empty or not, as if the routing had succeeded.
C21_RouteSurfacesFailure ==
    \A r \in Reqs :
        LET t == task[r]
        IN  (Done(r) /\ t.kind = "route_tasks" /\ AllFailed(t.calls))
            => ~(/\ t.result.outcome = "returned"
                 /\ t.result.value \in {EmptyObj, PlanJson})

\* The fallback chains of the workflows, by the stage their calls belong to.
Stages == {"enhance", "generate", "chat", "route"}

\* C22: within one request the provider calls of a fallback chain are
\* strictly sequential: a call of the chain is started (is in flight) only
\* when every earlier call of the chain has ended, and ended in failure, and
\* once a call of the chain has succeeded no further call of it is made.
C22_ChainIsSequential ==
    \A r \in Reqs : \A stage \in Stages :
        LET t     == task[r]
            calls == StageCalls(t, stage)
        IN  /\ t.inflight.stage = stage => \A i \in 1..Len(calls) : ~calls[i].ok
            /\ \A i \in 1..Len(calls) : calls[i].ok => i = Len(calls)

\* A chain ran its two providers one after the other: the first failed, the
\* second answered and the request succeeded.
C22_Witness ==
    \E r \in Reqs :
        LET calls == StageCalls(task[r], ChainStage(task[r].kind))
        IN  /\ Done(r) /\ task[r].kind \in {"generate", "chat"}
            /\ Len(calls) = 2 /\ ~calls[1].ok /\ calls[2].ok
            /\ calls[1].provider = Cloud /\ calls[2].provider = Local
            /\ task[r].result.success = "True"

\* The providers a task has called in one chain, in order, the call in
\* flight included.
Attempted(t, stage) ==
    LET calls == StageCalls(t, stage)
        done  == [i \in 1..Len(calls) |-> calls[i].provider]
    IN  IF t.inflight.stage = stage THEN Append(done, t.inflight.provider) ELSE done

\* C23: within one execution of a fallback chain each provider is attempted
\* at most once, in every configuration.
C23_ProviderTriedOnce ==
    \A r \in Reqs : \A stage \in Stages :
        LET tried == Attempted(task[r], stage)
        IN  \A i, j \in 1..Len(tried) : i # j => tried[i] # tried[j]

\* The chain of a stage ran to its end in task t with every call failing.
Exhausted(t, stage) ==
    /\ t.kind \in {"generate", "chat", "route_tasks"}
    /\ AllFailed(StageCalls(t, stage))
    /\ t.inflight.stage # stage

\* C24: under one configuration every workflow attempts the same ordered
\* list of providers when all of them fail: the lists of any two exhausted
\* chains (generate's Enhancing step, generate's Generating step, chat,
\* route), of one request or of two, are identical.
C24_OneChainForAll ==
    \A r1, r2 \in Reqs : \A s1, s2 \in Stages :
        (Exhausted(task[r1], s1) /\ Exhausted(task[r2], s2))
        => Attempted(task[r1], s1) = Attempted(task[r2], s2)

\* The error text the caller of a finished request receives.
Reported(result) == IF result.outcome = "raised" THEN result.detail ELSE result.error

\* C25: when the last fallback chain a request ran is exhausted, the error
\* reported to the caller is the error of the last provider attempted, in
\* generate's Generating step, in chat and in the tools built on
\* code_mcp.generate_code and nlp_mcp.generate_text.
C25_LastErrorReported ==
    \A r \in Reqs :
        LET t == task[r]
        IN  (/\ Done(r)
             /\ t.kind \in {"generate", "chat", "generate_html", "enhance_prompt"}
             /\ AllFailed(StageCalls(t, Last(t.calls).stage)))
            => Reported(t.result) = ProviderError(Last(t.calls).provider)

\* Both providers of a chain failed and the error of the second is reported.
C25_Witness ==
    \E r \in Reqs :
        /\ Done(r) /\ task[r].kind \in {"generate_html", "enhance_prompt"}
        /\ Len(task[r].calls) = 2 /\ AllFailed(task[r].calls)
        /\ task[r].calls[1].provider = Local /\ task[r].calls[2].provider = Cloud
        /\ task[r].result.error = OpenRouterError

\* C26: no step of a chat request, from its arrival to its result and
\* whatever the outcome, changes the store: the artifacts and metadata of
\* every project, the one the request names included, stay as they were.
C26_ChatLeavesStore ==
    [][\A r \in Reqs :
        (task'[r].kind = "chat" /\ task'[r] # task[r]) => store' = store]_vars

\* A chat for a stored project succeeded.
C26_Witness ==
    \E r \in Reqs :
        /\ Done(r) /\ task[r].kind = "chat"
        /\ task[r].result.success = "True"
        /\ store[task[r].request.project_id].exists
        /\ store[task[r].request.project_id].metadata # <<>>
        /\ task[r].result.html # store[task[r].request.project_id].html

\* C27: the stored content of a project q changes only in the step in which
\* the code-generation call of a generate request for q returns with an
\* answer: a generate whose Generating step fails changes nothing, and a
\* generate for p changes no project other than p, also when generates for
\* different projects run at the same time.
C27_GenerateWritesOwnProject ==
    [][\A q \in ProjectIds :
        store'[q] # store[q]
        => \E r \in Reqs :
              /\ task[r].kind = "generate" /\ task[r].project_id = q
              /\ task[r].pc \in {"gen_primary", "gen_fallback"}
              /\ task'[r].pc = "done"
              /\ Len(task'[r].calls) = Len(task[r].calls) + 1
              /\ Last(task'[r].calls).stage = "generate"
              /\ Last(task'[r].calls).ok]_vars

\* Two generates for different projects were in progress at the same time
\* (both saved after the second had started) and both projects are stored.
C27_Witness ==
    /\ \A r \in Reqs : Done(r) /\ task[r].kind = "generate" /\ task[r].persisted = "ok"
    /\ task["t1"].project_id # task["t2"].project_id
    /\ \A q \in ProjectIds :
          /\ store[q].exists /\ store[q].metadata # <<>>
          /\ store[q].metadata[1].created_at = 3

\* C28: once a generate request has been cancelled during one of its
\* provider calls, the local fallback call of the Enhancing step included,
\* it has no call in flight, completes no further call and writes nothing to
\* the store.
C28_CancelledGenerateStops ==
    \A r \in Reqs :
        LET t == task[r]
        IN  (t.kind = "generate" /\ t.cancelled # NoCancel)
            => /\ t.inflight = NoCall
               /\ Len(t.calls) = t.cancelled.after
               /\ t.persisted = "not tried"

\* C29: on every path through call_llm on which the provider that answered,
\* if any, delivered a text, the value route_tasks returns is a string,
\* never None.
C29_RouteReturnsString ==
    \A r \in Reqs :
        LET t == task[r]
        IN  (/\ Done(r) /\ t.kind = "route_tasks"
             /\ Last(t.calls).ok => Last(t.calls).text # None)
            => /\ t.result.outcome = "returned"
               /\ IsString(t.result.value)

\* C30: generate_ai_video with a configured token always eventually returns a result with an
\* explicit success flag, whatever statuses the remote service reports for
\* the prediction.
C30_VideoReturns ==
    \A r \in Reqs :
        (task[r].kind = "generate_ai_video" /\ task[r].pc = "video_create")
            ~> (Done(r) /\ task[r].result.outcome = "returned"
                        /\ task[r].result.success \in {"True", "False"})

====
